---- MODULE Spec2Model ----
(***************************************************************************)
(* Model of the dashboard generator of goedgekeurde-vergunningen           *)
(* (scripts/generate_html.py): DashboardGenerator.load_and_prepare_data,   *)
(* create_trend_chart, generate_analyses, create_data_table and main.      *)
(*                                                                         *)
(* Representation.                                                         *)
(*  - A float64 is a record [kind, v]: kind "num" with v the value in      *)
(*    units of 1/Scale, kind "nan", or kind "inf" (+infinity; the inputs   *)
(*    are non-negative counts, so -infinity does not arise).               *)
(*  - A Python str is a sequence of one-character strings, so that         *)
(*    astype(str), zfill, to_datetime and strftime are computed and not    *)
(*    assumed to round-trip.                                               *)
(*  - A DataFrame is a sequence of row records; the field idx is the       *)
(*    DataFrame index label (the row's position in building_permits.csv).  *)
(*  - A missing gemeente_naam_nl is the label "NaN" (read_csv turns the    *)
(*    text NaN into a missing value); it is equal to nothing, itself       *)
(*    included.                                                            *)
(***************************************************************************)
EXTENDS Integers, Sequences, FiniteSets, TLC

----------------------------------------------------------------------------
(* Bounds of the model *)

\* rows of building_permits.csv in the row-selection datasets
MaxRows == 2
\* largest count in a measure column of the ratio datasets
MaxCount == 2
\* rows of one gewest in the trend datasets (beyond the rolling window)
MaxTrendRows == 5

----------------------------------------------------------------------------
(* Program constants *)

\* df['geografisch_niveau'] == 2
GewestNiveau == 2
\* rolling(window=4, min_periods=1)
Window == 4
\* rolling(window=4, min_periods=1)
MinPeriods == 1
\* data.tail(30)
TailRows == 30
\* periode.isin([1, ..., 12])
Perioden == 1..12

\* fixed point: tenths (round(1)) times lcm(1..Window), so that every mean of
\* up to Window one-decimal values is an integer number of units
Scale == 10 * 12

----------------------------------------------------------------------------
(* float64 *)

Num(x) == [kind |-> "num", v |-> x]
NaN == [kind |-> "nan", v |-> 0]
Inf == [kind |-> "inf", v |-> 0]
\* an integer count c as a float
Count(c) == Num(c * Scale)

IsNaN(f) == f.kind = "nan"
IsNum(f) == f.kind = "num"
IsInf(f) == f.kind = "inf"

\* mutant: the missing value left as it is
FillNaSkipped(f) == f

\* Series.fillna(0): only NaN is filled, an infinity is kept
FillNa0(f) == IF IsNaN(f) THEN Num(0) ELSE f

\* n/d rounded to the nearest integer, halves to the even neighbour (n >= 0, d > 0)
RoundHalfEven(n, d) ==
    LET q == n \div d
        r == n % d
    IN  IF 2 * r < d THEN q
        ELSE IF 2 * r > d THEN q + 1
        ELSE IF q % 2 = 0 THEN q ELSE q + 1

\* mutant: the float cut off after its first decimal
Round1Down(f) == IF IsNum(f) THEN Num((Scale \div 10) * (f.v \div (Scale \div 10))) ELSE f

\* round(x, 1) / Series.round(1) of a float
Round1(f) == IF IsNum(f) THEN Num((Scale \div 10) * RoundHalfEven(f.v, Scale \div 10)) ELSE f

----------------------------------------------------------------------------
(* str *)

Digit == <<"0", "1", "2", "3", "4", "5", "6", "7", "8", "9">>

RECURSIVE Str(_)
\* str(n) / astype(str) of a non-negative integer
Str(n) == IF n < 10 THEN <<Digit[n + 1]>> ELSE Str(n \div 10) \o <<Digit[(n % 10) + 1]>>

RECURSIVE ZFill(_, _)
\* str.zfill(width)
ZFill(s, width) == IF Len(s) >= width THEN s ELSE ZFill(<<"0">> \o s, width)

DigitValue(c) == CHOOSE d \in 0..9 : Digit[d + 1] = c

RECURSIVE ParseInt(_)
\* the integer written by a digit string
ParseInt(s) == IF s = <<>> THEN 0 ELSE 10 * ParseInt(SubSeq(s, 1, Len(s) - 1)) + DigitValue(s[Len(s)])

\* position of the first "-" of s at or after position from (Len(s)+1 if none)
RECURSIVE FindDash(_, _)
FindDash(s, from) == IF from > Len(s) \/ s[from] = "-" THEN from ELSE FindDash(s, from + 1)

\* pd.to_datetime of a 'Y-M-D' string
ToDatetime(s) ==
    LET d1 == FindDash(s, 1)
        d2 == FindDash(s, d1 + 1)
    IN  [year  |-> ParseInt(SubSeq(s, 1, d1 - 1)),
         month |-> ParseInt(SubSeq(s, d1 + 1, d2 - 1)),
         day   |-> ParseInt(SubSeq(s, d2 + 1, Len(s)))]

\* mutant: day and month swapped in the format ('%Y-%d-%m')
StrftimeDayFirst(t) == ZFill(Str(t.year), 4) \o <<"-">> \o ZFill(Str(t.day), 2) \o <<"-">> \o ZFill(Str(t.month), 2)

\* Timestamp.strftime('%Y-%m-%d')
Strftime(t) == ZFill(Str(t.year), 4) \o <<"-">> \o ZFill(Str(t.month), 2) \o <<"-">> \o ZFill(Str(t.day), 2)

\* Timestamp ordering used by sort_values('datum')
DateLess(a, b) ==
    \/ a.year < b.year
    \/ a.year = b.year /\ a.month < b.month
    \/ a.year = b.year /\ a.month = b.month /\ a.day < b.day

----------------------------------------------------------------------------
(* labels *)

Missing == "NaN"

\* gewest_mapping of load_and_prepare_data
gewest_mapping ==
    [k \in {"VLAAMS GEWEST", "WAALS GEWEST", "BRUSSELS HOOFDSTEDELIJK GEWEST"} |->
        CASE k = "VLAAMS GEWEST" -> "Vlaams Gewest"
          [] k = "WAALS GEWEST" -> "Waals Gewest"
          [] k = "BRUSSELS HOOFDSTEDELIJK GEWEST" -> "Brussels Hoofdstedelijk Gewest"]

\* Series.map(gewest_mapping): a value that is no key becomes missing
MapGewest(naam) == IF naam \in DOMAIN gewest_mapping THEN gewest_mapping[naam] ELSE Missing

\* mutant: a missing label compares equal to a missing label
LabelEqMissingEqual(a, b) == a = b

\* elementwise == of a label column with a label: a missing value equals nothing
LabelEq(a, b) == a # Missing /\ b # Missing /\ a = b

\* mutant: the colours keyed by the labels of the file
gewest_colors_by_label ==
    [g \in {"VLAAMS GEWEST", "WAALS GEWEST", "BRUSSELS HOOFDSTEDELIJK GEWEST"} |->
        CASE g = "VLAAMS GEWEST" -> "#1f77b4"
          [] g = "WAALS GEWEST" -> "#ff7f0e"
          [] g = "BRUSSELS HOOFDSTEDELIJK GEWEST" -> "#2ca02c"]

\* self.gewest_colors of __init__
gewest_colors ==
    [g \in {"Vlaams Gewest", "Waals Gewest", "Brussels Hoofdstedelijk Gewest"} |->
        CASE g = "Vlaams Gewest" -> "#1f77b4"
          [] g = "Waals Gewest" -> "#ff7f0e"
          [] g = "Brussels Hoofdstedelijk Gewest" -> "#2ca02c"]

----------------------------------------------------------------------------
(* DataFrame helpers *)

\* mutant: every value of the column, repeated ones included
UniqueSkipped(s) == s

\* Series.unique(): the distinct values in order of first appearance; all
\* missing values count as one value
RECURSIVE Unique(_)
Unique(s) ==
    IF s = <<>> THEN <<>>
    ELSE LET init == Unique(SubSeq(s, 1, Len(s) - 1))
             last == s[Len(s)]
         IN  IF \E i \in 1..Len(init) : init[i] = last THEN init ELSE Append(init, last)

\* insert row r into the datum-sorted sequence s after every row not later than r
RECURSIVE InsertByDatum(_, _)
InsertByDatum(s, r) ==
    IF s = <<>> THEN <<r>>
    ELSE IF DateLess(r.datum, s[Len(s)].datum)
         THEN Append(InsertByDatum(SubSeq(s, 1, Len(s) - 1), r), s[Len(s)])
         ELSE Append(s, r)

\* mutant: the frame left in file order
SortValuesDatumSkipped(s) == s

\* DataFrame.sort_values('datum'): ascending; numpy sorts arrays of fewer than
\* 17 elements by insertion, which keeps equal dates in their original order
RECURSIVE SortValuesDatum(_)
SortValuesDatum(s) ==
    IF s = <<>> THEN <<>>
    ELSE InsertByDatum(SortValuesDatum(SubSeq(s, 1, Len(s) - 1)), s[Len(s)])

\* sum of the units of the finite values of column at positions lo..hi
RECURSIVE SumNum(_, _, _)
SumNum(column, lo, hi) ==
    IF lo > hi THEN 0
    ELSE (IF IsNum(column[hi]) THEN column[hi].v ELSE 0) + SumNum(column, lo, hi - 1)

\* Series.rolling(window=4, min_periods=1).mean() at position i (1-based):
\* pandas hands the window routine a copy in which every infinity is NaN, the
\* routine averages the non-NaN values of positions max(1, i-3)..i and yields
\* NaN when fewer than min_periods of them exist
RollingMeanAt(column, i) ==
    LET lo == IF i - Window + 1 < 1 THEN 1 ELSE i - Window + 1
        nobs == Cardinality({j \in lo..i : IsNum(column[j])})
    IN  IF nobs < MinPeriods THEN NaN ELSE Num(SumNum(column, lo, i) \div nobs)

RollingMean(column) == [i \in 1..Len(column) |-> RollingMeanAt(column, i)]

----------------------------------------------------------------------------
(* load_and_prepare_data *)

\* mutant: the level test left out of the filter
RowSelectedAnyNiveau(r) == r.periode \in Perioden

\* mutant: the yearly total (period 0) kept by the filter
RowSelectedWithYearTotal(r) == r.geografisch_niveau = GewestNiveau /\ r.periode \in 0..12

\* mutant: the two tests of the filter joined by | in place of &
RowSelectedEither(r) == r.geografisch_niveau = GewestNiveau \/ r.periode \in Perioden

\* (df['geografisch_niveau'] == 2) & (df['periode'].isin([1, ..., 12]))
RowSelected(r) == r.geografisch_niveau = GewestNiveau /\ r.periode \in Perioden

\* pd.to_datetime(jaar.astype(str) + '-' + periode.astype(str).str.zfill(2) + '-01')
Datum(r) == ToDatetime(Str(r.jaar) \o <<"-">> \o ZFill(Str(r.periode), 2) \o <<"-", "0", "1">>)

\* Series / Series * 100, then .round(1), on float64: x/0 is +infinity for
\* x > 0 and NaN for x = 0; a missing operand gives NaN
PercentOf(numerator, denominator) ==
    IF IsNaN(numerator) \/ IsNaN(denominator) THEN NaN
    ELSE IF denominator.v = 0 THEN (IF numerator.v = 0 THEN NaN ELSE Inf)
    ELSE Num((Scale \div 10) * RoundHalfEven(numerator.v * 1000, denominator.v))

\* mutant: numerator and denominator exchanged
AandeelFlatsSwapped(appartementen, totaal) == PercentOf(totaal, appartementen)

\* (nieuwbouw_appartementen / nieuwbouw_woningen_totaal * 100).round(1)
AandeelFlats(appartementen, totaal) == PercentOf(appartementen, totaal)

\* one row of df_gewest: datum and aandeel_flats added, the three numeric_cols
\* filled, gemeente_naam_nl mapped
PrepareRow(r) ==
    [idx |-> r.idx,
     geografisch_niveau |-> r.geografisch_niveau,
     jaar |-> r.jaar,
     periode |-> r.periode,
     datum |-> Datum(r),
     gemeente_naam_nl |-> MapGewest(r.gemeente_naam_nl),
     nieuwbouw_appartementen |-> r.nieuwbouw_appartementen,
     nieuwbouw_woningen_totaal |-> FillNa0(r.nieuwbouw_woningen_totaal),
     renovatie_gebouwen_wonen |-> FillNa0(r.renovatie_gebouwen_wonen),
     aandeel_flats |-> FillNa0(AandeelFlats(r.nieuwbouw_appartementen, r.nieuwbouw_woningen_totaal))]

RECURSIVE PrepareData(_)
\* df_gewest of load_and_prepare_data
PrepareData(frame) ==
    IF frame = <<>> THEN <<>>
    ELSE LET init == PrepareData(SubSeq(frame, 1, Len(frame) - 1))
             r == frame[Len(frame)]
         IN  IF RowSelected(r) THEN Append(init, PrepareRow(r)) ELSE init

\* mutant: the distinct labels collected from the last row of the frame backwards
GewestenBackwards(gewest_frame) ==
    Unique([i \in 1..Len(gewest_frame) |-> gewest_frame[Len(gewest_frame) + 1 - i].gemeente_naam_nl])

\* df_gewest['gemeente_naam_nl'].unique()
Gewesten(gewest_frame) == Unique([i \in 1..Len(gewest_frame) |-> gewest_frame[i].gemeente_naam_nl])

----------------------------------------------------------------------------
(* create_trend_chart *)

Metrics == <<"nieuwbouw_woningen_totaal", "renovatie_gebouwen_wonen", "aandeel_flats">>

\* mutant: the rows of every gewest, the comparison with the label left out
GewestRowsAll(data, gewest) == data

\* data[data['gemeente_naam_nl'] == gewest]
GewestRows(data, gewest) == SelectSeq(data, LAMBDA r : LabelEq(r.gemeente_naam_nl, gewest))

\* pd.to_numeric(gewest_data[metric], errors='coerce').fillna(0)
CleanColumn(rows, metric) == [i \in 1..Len(rows) |-> FillNa0(rows[i][metric])]

\* the two go.Scatter traces of one gewest: '(maand)' then '(trend)', over the
\* same x_values; text is hover_text reduced to (jaar, periode); src is the
\* index label of the row behind each point, kept for reference only
GewestTraces(data, metric, gewest) ==
    LET gewest_data == SortValuesDatum(GewestRows(data, gewest))
        column == CleanColumn(gewest_data, metric)
        x_values == [i \in 1..Len(gewest_data) |-> Strftime(gewest_data[i].datum)]
        hover_text == [i \in 1..Len(gewest_data) |->
                          <<gewest_data[i].jaar, gewest_data[i].periode>>]
        src == [i \in 1..Len(gewest_data) |-> gewest_data[i].idx]
        color == IF gewest \in DOMAIN gewest_colors THEN gewest_colors[gewest] ELSE "KeyError"
    IN  IF Len(gewest_data) = 0 THEN <<>>
        ELSE << [name |-> "maand", legendgroup |-> gewest, color |-> color,
                 x |-> x_values, y |-> column, text |-> hover_text, src |-> src],
                [name |-> "trend", legendgroup |-> gewest, color |-> color,
                 x |-> x_values, y |-> RollingMean(column), text |-> hover_text, src |-> src] >>

RECURSIVE ChartTracesMonthsFirst(_, _, _)
\* mutant: the '(maand)' traces of all gewesten first, then their '(trend)' traces
ChartTracesMonthsFirst(data, metric, labels) ==
    IF labels = <<>> THEN <<>>
    ELSE LET rest == ChartTracesMonthsFirst(data, metric, SubSeq(labels, 1, Len(labels) - 1))
             pair == GewestTraces(data, metric, labels[Len(labels)])
         IN  SubSeq(rest, 1, Len(rest) \div 2) \o SubSeq(pair, 1, Len(pair) \div 2)
                \o SubSeq(rest, (Len(rest) \div 2) + 1, Len(rest))
                \o SubSeq(pair, (Len(pair) \div 2) + 1, Len(pair))

RECURSIVE ChartTraces(_, _, _)
\* fig.data after the loop over self.gewesten
ChartTraces(data, metric, labels) ==
    IF labels = <<>> THEN <<>>
    ELSE ChartTraces(data, metric, SubSeq(labels, 1, Len(labels) - 1))
            \o GewestTraces(data, metric, labels[Len(labels)])

\* the debug lines create_trend_chart prints, one per gewest with rows: the
\* gewest and len(gewest_data) (the printed range of the metric is left out)
DataPointsLine(data, gewest) ==
    IF Len(GewestRows(data, gewest)) = 0 THEN <<>>
    ELSE <<[line |-> "data points", gewest |-> gewest, data_points |-> Len(GewestRows(data, gewest))]>>

RECURSIVE ChartLines(_, _)
ChartLines(data, labels) ==
    IF labels = <<>> THEN <<>>
    ELSE ChartLines(data, SubSeq(labels, 1, Len(labels) - 1)) \o DataPointsLine(data, labels[Len(labels)])

----------------------------------------------------------------------------
(* generate_analyses: the chartN_data lists *)

\* the 'maand' cell: the row's value, rounded to one decimal for aandeel_flats only
MaandCell(r, metric) == IF metric = "aandeel_flats" THEN Round1(r[metric]) ELSE r[metric]

\* the rows appended to chartN_data for one gewest; maand and trend stand for
\* the columns '<metric>_maand' and '<metric>_trend'; appartementen_absoluut
\* and woningen_totaal are columns of the aandeel_flats table only
GewestTableRows(data, metric, gewest) ==
    LET gewest_data == SortValuesDatum(GewestRows(data, gewest))
        column == [i \in 1..Len(gewest_data) |-> gewest_data[i][metric]]
        rolling == RollingMean(column)
    IN  [i \in 1..Len(gewest_data) |->
            [datum |-> Strftime(gewest_data[i].datum),
             gewest |-> gewest_data[i].gemeente_naam_nl,
             jaar |-> gewest_data[i].jaar,
             periode |-> gewest_data[i].periode,
             maand |-> MaandCell(gewest_data[i], metric),
             trend |-> Round1(rolling[i]),
             appartementen_absoluut |-> gewest_data[i].nieuwbouw_appartementen,
             woningen_totaal |-> gewest_data[i].nieuwbouw_woningen_totaal,
             src |-> gewest_data[i].idx]]

RECURSIVE TableRows(_, _, _)
\* chartN_data after the loop over self.gewesten
TableRows(data, metric, labels) ==
    IF labels = <<>> THEN <<>>
    ELSE TableRows(data, metric, SubSeq(labels, 1, Len(labels) - 1))
            \o GewestTableRows(data, metric, labels[Len(labels)])

\* data.tail(30) of create_data_table
TailOfTable(rows) == IF Len(rows) <= TailRows THEN rows ELSE SubSeq(rows, Len(rows) - TailRows + 1, Len(rows))

----------------------------------------------------------------------------
(* Input: the contents of data/building_permits.csv *)

CsvRow(niveau, jaar, periode, naam, totaal, appartementen, renovatie) ==
    [geografisch_niveau |-> niveau,
     jaar |-> jaar,
     periode |-> periode,
     gemeente_naam_nl |-> naam,
     nieuwbouw_woningen_totaal |-> totaal,
     nieuwbouw_appartementen |-> appartementen,
     renovatie_gebouwen_wonen |-> renovatie]

SeqsUpTo(S, n) == UNION {[1..k -> S] : k \in 0..n}

\* Row-selection datasets: gewest rows with every combination of period code
\* (0 = whole year, 13 = no month) and label (two mapped, one already in display
\* form, one missing) and rows of another level (whole year or month, mapped or
\* missing label), in any order and with repetitions
SelectRows ==
    {CsvRow(GewestNiveau, 2023, periode, naam, Count(4), Count(1), Count(3)) :
        periode \in {0, 1, 3, 13},
        naam \in {"VLAAMS GEWEST", "WAALS GEWEST", "Vlaams Gewest", Missing}}
    \cup
    {CsvRow(1, 2023, periode, naam, Count(4), Count(1), Count(3)) :
        periode \in {0, 1},
        naam \in {"VLAAMS GEWEST", Missing}}

SelectDatasets == SeqsUpTo(SelectRows, MaxRows)

\* Ratio datasets: one or two gewest rows whose measures range over missing
\* and the counts 0..MaxCount
Counts == {NaN} \cup {Count(c) : c \in 0..MaxCount}

RatioDatasets ==
    {<<CsvRow(GewestNiveau, 2023, 1, "VLAAMS GEWEST", t1, a1, r1)>> :
        t1 \in Counts, a1 \in Counts, r1 \in {NaN, Count(1)}}
    \cup
    {<<CsvRow(GewestNiveau, 2023, 1, "VLAAMS GEWEST", t1, a1, NaN),
       CsvRow(GewestNiveau, 2023, 2, "VLAAMS GEWEST", t2, a2, Count(1))>> :
        t1 \in Counts, a1 \in Counts, t2 \in Counts, a2 \in Counts}

\* Trend datasets: up to MaxTrendRows rows of one gewest in consecutive months
\* from November 2023 on, oldest first or newest first in the file
TrendCounts == {0, 10, 100}

TrendColumns ==
    UNION {[1..n -> TrendCounts] : n \in 1..MaxTrendRows}
    \cup {<<10, 20, 30, 40, 100>>}

\* the k-th month (k = 1 is November 2023)
TrendJaar(k) == 2023 + ((10 + k - 1) \div 12)
TrendPeriode(k) == ((10 + k - 1) % 12) + 1

TrendDataset(column, newestFirst) ==
    [i \in 1..Len(column) |->
        LET k == IF newestFirst THEN Len(column) + 1 - i ELSE i
        IN  CsvRow(GewestNiveau, TrendJaar(k), TrendPeriode(k), "WAALS GEWEST",
                   Count(column[k]), Count(10), Count(column[k]))]

TrendDatasets == {TrendDataset(c, b) : c \in TrendColumns, b \in BOOLEAN}

\* Long datasets: more rows than the HTML table shows. Two gewesten with
\* MaxLongRows consecutive months each, gewest after gewest or month after
\* month in the file, and one gewest with twice as many months
MaxLongRows == 16

LongRow(naam, k) ==
    CsvRow(GewestNiveau, TrendJaar(k), TrendPeriode(k), naam, Count(k), Count(1), Count(2))

LongDatasets ==
    { [i \in 1..(2 * MaxLongRows) |->
          IF i <= MaxLongRows THEN LongRow("VLAAMS GEWEST", i)
          ELSE LongRow("WAALS GEWEST", i - MaxLongRows)],
      [i \in 1..(2 * MaxLongRows) |->
          IF i % 2 = 1 THEN LongRow("WAALS GEWEST", (i + 1) \div 2)
          ELSE LongRow("VLAAMS GEWEST", i \div 2)],
      [i \in 1..(2 * MaxLongRows) |-> LongRow("VLAAMS GEWEST", i)] }

\* the columns the dashboard generator reads from building_permits.csv
AllColumns ==
    {"refnis_code", "gemeente_naam_nl", "jaar", "periode", "geografisch_niveau",
     "nieuwbouw_woningen_totaal", "nieuwbouw_appartementen", "renovatie_gebouwen_wonen"}

\* the columns load_and_prepare_data indexes; a missing one raises KeyError
LoadColumns == AllColumns \ {"refnis_code"}

\* the columns generate_stats indexes
StatsColumns == {"refnis_code", "jaar"}

\* Schema datasets: files of at most one row whose header is complete, lacks
\* refnis_code or lacks a metric column
SchemaDatasets == SeqsUpTo(SelectRows, 1)

SchemaColumns ==
    {AllColumns, AllColumns \ {"refnis_code"}, AllColumns \ {"renovatie_gebouwen_wonen"}}

\* pd.read_csv: the rows of the file under a RangeIndex
ReadCsv(file) ==
    [i \in 1..Len(file) |->
        [idx |-> i - 1,
         geografisch_niveau |-> file[i].geografisch_niveau,
         jaar |-> file[i].jaar,
         periode |-> file[i].periode,
         gemeente_naam_nl |-> file[i].gemeente_naam_nl,
         nieuwbouw_woningen_totaal |-> file[i].nieuwbouw_woningen_totaal,
         nieuwbouw_appartementen |-> file[i].nieuwbouw_appartementen,
         renovatie_gebouwen_wonen |-> file[i].renovatie_gebouwen_wonen]]

----------------------------------------------------------------------------
(* config.py: the column name maps *)

\* the items of the dict literal DUTCH_COLUMN_NAMES, in source order
DUTCH_COLUMN_ITEMS ==
    << <<"REFNIS", "refnis_code">>,
       <<"REFNIS_NL", "gemeente_naam_nl">>,
       <<"REFNIS_FR", "gemeente_naam_fr">>,
       <<"CD_YEAR", "jaar">>,
       <<"CD_PERIOD", "periode">>,
       <<"MS_BUILDING_RES_NEW", "nieuwbouw_gebouwen_wonen">>,
       <<"MS_DWELLING_RES_NEW", "nieuwbouw_woningen_totaal">>,
       <<"MS_APARTMENT_RES_NEW", "nieuwbouw_appartementen">>,
       <<"MS_SINGLE_HOUSE_RES_NEW", "nieuwbouw_eengezinswoningen">>,
       <<"MS_TOTAL_SURFACE_RES_NEW", "nieuwbouw_oppervlakte_wonen_m2">>,
       <<"MS_BUILDING_RES_RENOVATION", "renovatie_gebouwen_wonen">>,
       <<"MS_BUILDING_NONRES_NEW", "nieuwbouw_gebouwen_bedrijven">>,
       <<"MS_VOLUME_NONRES_NEW", "nieuwbouw_volume_bedrijven_m3">>,
       <<"MS_BUILDING_NONRES_RENOVATION", "renovatie_gebouwen_bedrijven">>,
       <<"CD_REFNIS_NATION", "code_land">>,
       <<"CD_REFNIS_REGION", "code_gewest">>,
       <<"CD_REFNIS_PROVINCE", "code_provincie">>,
       <<"CD_REFNIS_DISTRICT", "code_arrondissement">>,
       <<"CD_REFNIS_MUNICIPALITY", "code_gemeente">>,
       <<"CD_REFNIS_LEVEL", "geografisch_niveau">> >>

\* a dict built from (key, value) items one after the other: a key that comes
\* again keeps its place and takes the later value
Dict(items) ==
    [k \in {items[i][1] : i \in 1..Len(items)} |->
        items[CHOOSE i \in 1..Len(items) :
                /\ items[i][1] = k
                /\ \A j \in (i + 1)..Len(items) : items[j][1] # k][2]]

\* mutant: REFNIS_FR given the name of REFNIS_NL
DUTCH_COLUMN_NAMES_shared_name ==
    Dict([i \in 1..Len(DUTCH_COLUMN_ITEMS) |->
            IF DUTCH_COLUMN_ITEMS[i][1] = "REFNIS_FR" THEN <<"REFNIS_FR", "gemeente_naam_nl">>
            ELSE DUTCH_COLUMN_ITEMS[i]])

\* DUTCH_COLUMN_NAMES = {...}
DUTCH_COLUMN_NAMES == Dict(DUTCH_COLUMN_ITEMS)

\* the items of a dict with key and value swapped
SwappedItems(d, keys) == [i \in 1..Len(keys) |-> <<d[keys[i]], keys[i]>>]

\* ENGLISH_COLUMN_NAMES = {v: k for k, v in DUTCH_COLUMN_NAMES.items()}; the
\* keys of DUTCH_COLUMN_NAMES are iterated in insertion order
ENGLISH_COLUMN_NAMES ==
    Dict(SwappedItems(DUTCH_COLUMN_NAMES, Unique([i \in 1..Len(DUTCH_COLUMN_ITEMS) |-> DUTCH_COLUMN_ITEMS[i][1]])))

----------------------------------------------------------------------------
(* download_data.py: names, files and the archive *)

\* the fallback DUTCH_COLUMN_NAMES of download_data.py, bound when config
\* cannot be imported
FALLBACK_COLUMN_ITEMS ==
    << <<"CD_MUNTY_REFNIS", "gemeente_code">>,
       <<"TX_MUNTY_DESCR_NL", "gemeente_naam">>,
       <<"TX_PROV_DESCR_NL", "provincie">>,
       <<"TX_RGN_DESCR_NL", "gewest">>,
       <<"CD_YEAR", "jaar">>,
       <<"MS_NBR_BUILDING_PERMITS", "aantal_vergunningen">>,
       <<"MS_NBR_NEW_DWELLINGS", "nieuwe_woningen">>,
       <<"MS_NBR_DEMO_DWELLINGS", "gesloopte_woningen">>,
       <<"MS_NBR_RENOV_DWELLINGS", "gerenoveerde_woningen">> >>

FALLBACK_COLUMN_NAMES == Dict(FALLBACK_COLUMN_ITEMS)

\* a file of data/: its name without suffix, and its suffix
DataPath(stem, suffix) == [stem |-> stem, suffix |-> suffix]

\* zip_path and output_csv of main()
zip_path == DataPath("TF_BUILDING_PERMITS", ".zip")
output_csv == DataPath("building_permits", ".csv")

\* the name of an archive member: up tells that it starts with '../'
MemberName(up, stem, suffix) == [up |-> up, stem |-> stem, suffix |-> suffix]

\* file.endswith('.txt')
EndsWithTxt(file) == file.suffix = ".txt"

\* where extractall(data_dir) writes a member: zipfile drops the '..' parts of
\* a member name
ExtractPath(file) == DataPath(file.stem, file.suffix)

\* data_dir / file: a name that starts with '../' leads out of data/
JoinDataDir(file) == IF file.up THEN [outside |-> file] ELSE DataPath(file.stem, file.suffix)

\* the contents a file can have
Absent == [kind |-> "absent"]
Previous == [kind |-> "previous"]
OtherContent == [kind |-> "other"]
EmptyText == [kind |-> "empty text"]

\* a '|'-separated text: its header, its number of rows and whether a float
\* column holds a fraction; a column name is a sequence of symbols, the blank,
\* the double quote, or the rest of the name as one symbol
Text(header, rows, fraction) == [kind |-> "text", header |-> header, rows |-> rows, fraction |-> fraction]

PermitsHeader == << <<"CD_YEAR">>, <<" ", "REFNIS_NL">>, <<"\"", "MS_DWELLING_RES_NEW", "\"">>, <<"TX_RGN_DESCR_NL">> >>

TextContents ==
    { Text(PermitsHeader, 2, FALSE),
      Text(PermitsHeader, 2, TRUE),
      Text(<< <<"REFNIS">>, <<"CD_PERIOD">> >>, 1, FALSE),
      EmptyText }

\* the members an archive can hold: the data text (also under a name that
\* leads out of the target directory), a document, and a file with the name
\* of the output
Members ==
    {[name |-> MemberName(up, "TF_BUILDING_PERMITS", ".txt"), content |-> c] :
        up \in BOOLEAN, c \in TextContents}
    \cup {[name |-> MemberName(FALSE, "README", ".pdf"), content |-> OtherContent],
          [name |-> MemberName(FALSE, "building_permits", ".csv"), content |-> OtherContent]}

\* Archives: up to MaxMembers members
MaxMembers == 2

Archives == SeqsUpTo(Members, MaxMembers)

\* what requests.get(url) answers: an error status, bytes that are no ZIP, or
\* an archive
Responses ==
    {[status |-> "error"], [status |-> "ok", zip |-> FALSE]}
    \cup {[status |-> "ok", zip |-> TRUE, members |-> a] : a \in Archives}

\* the files of data/ the run can touch
DataFiles == {zip_path, output_csv} \cup {ExtractPath(m.name) : m \in Members}

\* data_file.exists(): nothing exists outside data/
Exists(dir, path) == path \in DataFiles /\ dir[path] # Absent

RECURSIVE ExtractAll(_, _)
\* zip_ref.extractall(data_dir): every member written in archive order
ExtractAll(dir, members) ==
    IF members = <<>> THEN dir
    ELSE LET last == members[Len(members)]
         IN  [ExtractAll(dir, SubSeq(members, 1, Len(members) - 1))
                EXCEPT ![ExtractPath(last.name)] = last.content]

\* the first name of extracted_files that ends with '.txt', joined to
\* data_dir; None when there is none
None == [none |-> TRUE]

RECURSIVE FirstTxt(_)
FirstTxt(files) ==
    IF files = <<>> THEN None
    ELSE IF EndsWithTxt(files[1]) THEN JoinDataDir(files[1])
    ELSE FirstTxt(Tail(files))

RECURSIVE LStrip(_, _)
\* the column name without the leading symbols c
LStrip(col, c) == IF col # <<>> /\ col[1] = c THEN LStrip(Tail(col), c) ELSE col

RECURSIVE RStrip(_, _)
RStrip(col, c) ==
    IF col # <<>> /\ col[Len(col)] = c THEN RStrip(SubSeq(col, 1, Len(col) - 1), c) ELSE col

\* col.strip().strip('"')
StripColumn(col) == RStrip(LStrip(RStrip(LStrip(col, " "), " "), "\""), "\"")

\* df.rename(columns=names): a column whose whole name is a key is renamed
RenameColumn(col, names) ==
    IF Len(col) = 1 /\ col[1] \in DOMAIN names THEN <<names[col[1]]>> ELSE col

\* the frame written by to_csv: the header stripped and renamed
ConvertedFrame(text, names) ==
    [kind |-> "csv",
     columns |-> [i \in 1..Len(text.header) |-> RenameColumn(StripColumn(text.header[i]), names)],
     rows |-> text.rows]

----------------------------------------------------------------------------
(* The run of main(): load_and_prepare_data, generate_analyses, generate_html *)

\* the files of docs/ written for analysis m, in the order they are written
ChartFile == <<"charts/nieuwbouw_woningen.html", "charts/renovatie_gebouwen.html", "charts/aandeel_flats.html">>
StandaloneFile ==
    <<"charts/nieuwbouw_woningen_standalone.html", "charts/renovatie_gebouwen_standalone.html",
      "charts/aandeel_flats_standalone.html">>
CsvFile == <<"csv/nieuwbouw_woningen_data.csv", "csv/renovatie_gebouwen_data.csv", "csv/aandeel_flats_data.csv">>
TableFile ==
    <<"tables/nieuwbouw_woningen_data.html", "tables/renovatie_gebouwen_data.html",
      "tables/aandeel_flats_data.html">>
IndexFile == "index.html"

AnalysisFiles(m) == {ChartFile[m], StandaloneFile[m], CsvFile[m], TableFile[m]}

DocFiles == UNION {AnalysisFiles(m) : m \in 1..Len(Metrics)} \cup {IndexFile}

VARIABLES
    pc,         \* the call of main() that runs next
    csv,        \* data/building_permits.csv
    columns,    \* the header of data/building_permits.csv
    df,         \* self.df
    df_gewest,  \* self.df_gewest
    gewesten,   \* self.gewesten
    charts,     \* charts[m]: the traces of the figure of analysis m
    tables,     \* tables[m]: chartN_data, the rows written to the CSV of analysis m
    table_html, \* table_html[m]: the rows of the HTML table of analysis m
    data_rows,  \* data_rows[m]: analyses[m]['data_rows']
    analyses,   \* len(analyses): the analyses generated so far
    docs,       \* docs[f]: file f of docs/ is "absent", "previous" (of an earlier run) or "written"
    output      \* what the run reports: the 'Data loaded' line and the stats of index.html

\* the state of a run of download_data.main()
VARIABLES
    dl_pc,           \* the step of download_data.main() that runs next
    response,        \* what requests.get(url) answers
    column_names,    \* the DUTCH_COLUMN_NAMES the script has bound: config's or the fallback
    data_dir,        \* data_dir[f]: the content of file f of data/
    extracted_files, \* extracted_files: zip_ref.namelist()
    data_file,       \* data_file
    download_df,     \* df of download_data.main()
    exit_status      \* the exit status of the process once it has ended

generate_vars == <<pc, csv, columns, df, df_gewest, gewesten, charts, tables, table_html, data_rows,
                   analyses, docs, output>>

download_vars == <<dl_pc, response, column_names, data_dir, extracted_files, data_file,
                   download_df, exit_status>>

vars == <<generate_vars, download_vars>>

\* download_data.main() is not run
DownloadIdle ==
    /\ dl_pc = "not run"
    /\ response = [status |-> "none"]
    /\ column_names = DUTCH_COLUMN_NAMES
    /\ data_dir = [f \in DataFiles |-> IF f = output_csv THEN Previous ELSE Absent]
    /\ extracted_files = <<>>
    /\ data_file = None
    /\ download_df = None
    /\ exit_status = "none"

NAnalyses == Len(Metrics)

Init ==
    /\ pc = "load_and_prepare_data"
    /\ \/ /\ csv \in SelectDatasets \cup RatioDatasets \cup TrendDatasets \cup LongDatasets
          /\ columns = AllColumns
          /\ docs = [f \in DocFiles |-> "absent"]
       \/ /\ csv \in SchemaDatasets
          /\ columns \in SchemaColumns
          /\ docs \in {[f \in DocFiles |-> "absent"], [f \in DocFiles |-> "previous"]}
    /\ df = <<>>
    /\ df_gewest = <<>>
    /\ gewesten = <<>>
    /\ charts = [m \in 1..NAnalyses |-> <<>>]
    /\ tables = [m \in 1..NAnalyses |-> <<>>]
    /\ table_html = [m \in 1..NAnalyses |-> <<>>]
    /\ data_rows = [m \in 1..NAnalyses |-> 0]
    /\ analyses = 0
    /\ output = <<>>
    /\ DownloadIdle

\* print(f"Data loaded: {df.shape[0]:,} rows, {len(self.gewesten)} gewesten")
DataLoadedLine(frame, labels) == [line |-> "Data loaded", rows |-> Len(frame), gewesten |-> Len(labels)]

\* generator.load_and_prepare_data(): indexing a column the file lacks raises
\* KeyError, which ends main()
LoadAndPrepareData ==
    /\ pc = "load_and_prepare_data"
    /\ IF LoadColumns \subseteq columns
       THEN /\ df' = ReadCsv(csv)
            /\ df_gewest' = PrepareData(df')
            /\ gewesten' = Gewesten(df_gewest')
            /\ output' = Append(output, DataLoadedLine(df', gewesten'))
            /\ pc' = "generate_analyses"
       ELSE /\ pc' = "failed"
            /\ UNCHANGED <<df, df_gewest, gewesten, output>>
    /\ UNCHANGED <<csv, columns, charts, tables, table_html, data_rows, analyses, docs>>
    /\ UNCHANGED download_vars

\* generator.generate_analyses(), one analysis at a time: create_trend_chart
\* (which writes the chart and its standalone page), the chartN_data loop,
\* create_data_table (which writes the CSV and the table page), analyses.append
GenerateAnalysis ==
    /\ pc = "generate_analyses"
    /\ analyses < NAnalyses
    /\ LET m == analyses + 1
       IN  /\ charts' = [charts EXCEPT ![m] = ChartTraces(df_gewest, Metrics[m], gewesten)]
           /\ tables' = [tables EXCEPT ![m] = TableRows(df_gewest, Metrics[m], gewesten)]
           /\ table_html' = [table_html EXCEPT ![m] = TailOfTable(tables'[m])]
           /\ data_rows' = [data_rows EXCEPT ![m] = Len(tables'[m])]
           /\ docs' = [f \in DocFiles |-> IF f \in AnalysisFiles(m) THEN "written" ELSE docs[f]]
           /\ analyses' = m
           /\ output' = output \o ChartLines(df_gewest, gewesten)
           /\ pc' = IF m = NAnalyses THEN "generate_html" ELSE "generate_analyses"
    /\ UNCHANGED <<csv, columns, df, df_gewest, gewesten>>
    /\ UNCHANGED download_vars

\* generate_stats(): total_records, year_range and gewesten_count (total_locations
\* counts refnis_code values, which the rows of the model do not carry)
GenerateStats(frame, labels) ==
    [line |-> "stats",
     total_records |-> Len(frame),
     year_range |-> {frame[i].jaar : i \in 1..Len(frame)},
     gewesten_count |-> Len(labels)]

\* generator.generate_html(): generate_stats() first, which raises KeyError when
\* the file lacks a column it indexes, then index.html is written
GenerateHtml ==
    /\ pc = "generate_html"
    /\ IF StatsColumns \subseteq columns
       THEN /\ output' = Append(output, GenerateStats(df, gewesten))
            /\ docs' = [docs EXCEPT ![IndexFile] = "written"]
            /\ pc' = "done"
       ELSE /\ pc' = "failed"
            /\ UNCHANGED <<output, docs>>
    /\ UNCHANGED <<csv, columns, df, df_gewest, gewesten, charts, tables, table_html, data_rows, analyses>>
    /\ UNCHANGED download_vars

Next == LoadAndPrepareData \/ GenerateAnalysis \/ GenerateHtml

Spec == Init /\ [][Next]_vars

----------------------------------------------------------------------------
(* The run of download_data.main() *)

\* generate_html.main() is not run
GenerateIdle ==
    /\ pc = "not run"
    /\ csv = <<>>
    /\ columns = AllColumns
    /\ df = <<>>
    /\ df_gewest = <<>>
    /\ gewesten = <<>>
    /\ charts = [m \in 1..NAnalyses |-> <<>>]
    /\ tables = [m \in 1..NAnalyses |-> <<>>]
    /\ table_html = [m \in 1..NAnalyses |-> <<>>]
    /\ data_rows = [m \in 1..NAnalyses |-> 0]
    /\ analyses = 0
    /\ docs = [f \in DocFiles |-> "absent"]
    /\ output = <<>>

\* the start of main(): data/ holds no building_permits.csv or the one of an
\* earlier run; the import of config has succeeded or fallen back
InitDownload ==
    /\ GenerateIdle
    /\ dl_pc = "download"
    /\ response \in Responses
    /\ column_names \in {DUTCH_COLUMN_NAMES, FALLBACK_COLUMN_NAMES}
    /\ data_dir \in {[f \in DataFiles |-> IF f = output_csv THEN c ELSE Absent] : c \in {Absent, Previous}}
    /\ extracted_files = <<>>
    /\ data_file = None
    /\ download_df = None
    /\ exit_status = "running"

\* an exception nobody catches ends the process with a traceback and status 1
Raise ==
    /\ dl_pc' = "raised"
    /\ exit_status' = 1

\* requests.get, raise_for_status, and the body written to zip_path
Download ==
    /\ dl_pc = "download"
    /\ IF response.status = "error"
       THEN Raise /\ UNCHANGED data_dir
       ELSE /\ data_dir' = [data_dir EXCEPT ![zip_path] = [kind |-> "download", body |-> response]]
            /\ dl_pc' = "extract"
            /\ UNCHANGED exit_status
    /\ UNCHANGED <<response, column_names, extracted_files, data_file, download_df>>
    /\ UNCHANGED generate_vars

\* zipfile.ZipFile(zip_path) (BadZipFile when the bytes are no ZIP),
\* extractall(data_dir), namelist()
Extract ==
    /\ dl_pc = "extract"
    /\ LET body == data_dir[zip_path].body
       IN  IF ~body.zip
           THEN Raise /\ UNCHANGED <<data_dir, extracted_files>>
           ELSE /\ data_dir' = ExtractAll(data_dir, body.members)
                /\ extracted_files' = [i \in 1..Len(body.members) |-> body.members[i].name]
                /\ dl_pc' = "find data file"
                /\ UNCHANGED exit_status
    /\ UNCHANGED <<response, column_names, data_file, download_df>>
    /\ UNCHANGED generate_vars

\* the loop over extracted_files and the test 'data_file and data_file.exists()'
FindDataFile ==
    /\ dl_pc = "find data file"
    /\ data_file' = FirstTxt(extracted_files)
    /\ dl_pc' = IF data_file' # None /\ Exists(data_dir, data_file') THEN "convert" ELSE "no data file"
    /\ UNCHANGED <<response, column_names, data_dir, extracted_files, download_df, exit_status>>
    /\ UNCHANGED generate_vars

\* the else branch: the error message and sys.exit(1)
ExitNoDataFile ==
    /\ dl_pc = "no data file"
    /\ dl_pc' = "exited"
    /\ exit_status' = 1
    /\ UNCHANGED <<response, column_names, data_dir, extracted_files, data_file, download_df>>
    /\ UNCHANGED generate_vars

\* pd.read_csv (EmptyDataError on a text without header), the columns
\* stripped, astype('Int64') (TypeError on a fraction), rename, to_csv
Convert ==
    /\ dl_pc = "convert"
    /\ LET text == data_dir[data_file]
       IN  IF text.kind # "text" \/ text.fraction
           THEN Raise /\ UNCHANGED <<data_dir, download_df>>
           ELSE /\ download_df' = ConvertedFrame(text, column_names)
                /\ data_dir' = [data_dir EXCEPT ![output_csv] = download_df']
                /\ dl_pc' = "unlink zip"
                /\ UNCHANGED exit_status
    /\ UNCHANGED <<response, column_names, extracted_files, data_file>>
    /\ UNCHANGED generate_vars

\* zip_path.unlink()
UnlinkZip ==
    /\ dl_pc = "unlink zip"
    /\ data_dir' = [data_dir EXCEPT ![zip_path] = Absent]
    /\ dl_pc' = "unlink data file"
    /\ UNCHANGED <<response, column_names, extracted_files, data_file, download_df, exit_status>>
    /\ UNCHANGED generate_vars

\* data_file.unlink()
UnlinkDataFile ==
    /\ dl_pc = "unlink data file"
    /\ data_dir' = [data_dir EXCEPT ![data_file] = Absent]
    /\ dl_pc' = "report"
    /\ UNCHANGED <<response, column_names, extracted_files, data_file, download_df, exit_status>>
    /\ UNCHANGED generate_vars

\* the three prints; df["jaar"] raises KeyError when no column is called jaar
Report ==
    /\ dl_pc = "report"
    /\ IF \E i \in 1..Len(download_df.columns) : download_df.columns[i] = <<"jaar">>
       THEN dl_pc' = "done" /\ exit_status' = 0
       ELSE Raise
    /\ UNCHANGED <<response, column_names, data_dir, extracted_files, data_file, download_df>>
    /\ UNCHANGED generate_vars

NextDownload ==
    \/ Download
    \/ Extract
    \/ FindDataFile
    \/ ExitNoDataFile
    \/ Convert
    \/ UnlinkZip
    \/ UnlinkDataFile
    \/ Report

SpecDownload == InitDownload /\ [][NextDownload]_vars

----------------------------------------------------------------------------
(* Vocabulary of the properties *)

\* the row of self.df behind index label src
SourceRow(src) == df[src + 1]

\* every point of every trace of every chart: <<analysis, trace, position>>
ChartPoints ==
    UNION {UNION {{<<m, t, i>> : i \in 1..Len(charts[m][t].x)} : t \in 1..Len(charts[m])} :
           m \in 1..NAnalyses}

\* every row of every table/CSV: <<analysis, position>>
TablePoints == UNION {{<<m, i>> : i \in 1..Len(tables[m])} : m \in 1..NAnalyses}

\* the index labels of the rows behind the chart points and the table/CSV rows
OutputSources ==
    {charts[p[1]][p[2]].src[p[3]] : p \in ChartPoints}
    \cup {tables[p[1]][p[2]].src : p \in TablePoints}

\* the index labels of the filtered frame df_gewest
FilteredSources == {df_gewest[i].idx : i \in 1..Len(df_gewest)}

\* the text 'YYYY-MM-01' of the first day of month month of year jaar
FirstOfMonth(jaar, month) ==
    << Digit[((jaar \div 1000) % 10) + 1], Digit[((jaar \div 100) % 10) + 1],
       Digit[((jaar \div 10) % 10) + 1], Digit[(jaar % 10) + 1], "-",
       Digit[(month \div 10) + 1], Digit[(month % 10) + 1], "-", "0", "1" >>

----------------------------------------------------------------------------
(* C1 *)

\* C1: no row whose geographic level differs from 2 is behind any row of
\* df_gewest, any chart point or any table/CSV row, whatever its other fields
C1_OtherLevelsExcluded ==
    \A src \in FilteredSources \cup OutputSources :
        SourceRow(src).geografisch_niveau = GewestNiveau

\* a finished run whose file holds a level-1 row with a month code and a mapped
\* label next to a gewest row that reached a table
C1_Witness ==
    /\ pc = "done"
    /\ \E i \in 1..Len(df) :
          /\ df[i].geografisch_niveau # GewestNiveau
          /\ df[i].periode \in Perioden
          /\ df[i].gemeente_naam_nl \in DOMAIN gewest_mapping
    /\ Len(tables[1]) > 0

----------------------------------------------------------------------------
(* C2 *)

\* C2: no row with period 0, or any period code outside 1..12, is behind any
\* row of df_gewest, any chart point (raw or trend) or any table/CSV row
C2_YearTotalsExcluded ==
    \A src \in FilteredSources \cup OutputSources :
        /\ SourceRow(src).periode # 0
        /\ SourceRow(src).periode \in Perioden

\* a finished run whose file holds a gewest row with period 0 and one with
\* period 13, both with a mapped label, next to a row that reached a table
C2_Witness ==
    /\ pc = "done"
    /\ \E i \in 1..Len(df) :
          /\ df[i].geografisch_niveau = GewestNiveau
          /\ df[i].periode \in {0, 13}
          /\ df[i].gemeente_naam_nl \in DOMAIN gewest_mapping
    /\ Len(tables[1]) > 0

----------------------------------------------------------------------------
(* C3 *)

\* C3: the datum of a retained row with year y and period p is the first day of
\* month p of year y; the chart x value and the table 'datum' of the row are the
\* text y-pp-01 (2023, 3 gives 2023-03-01)
C3_MonthlyDate ==
    /\ \A i \in 1..Len(df_gewest) :
          df_gewest[i].datum = [year |-> df_gewest[i].jaar, month |-> df_gewest[i].periode, day |-> 1]
    /\ \A p \in ChartPoints :
          LET trace == charts[p[1]][p[2]]
              row == SourceRow(trace.src[p[3]])
          IN  /\ trace.x[p[3]] = FirstOfMonth(row.jaar, row.periode)
              /\ trace.text[p[3]] = <<row.jaar, row.periode>>
              /\ (row.jaar = 2023 /\ row.periode = 3) =>
                    trace.x[p[3]] = <<"2", "0", "2", "3", "-", "0", "3", "-", "0", "1">>
    /\ \A p \in TablePoints :
          LET line == tables[p[1]][p[2]]
              row == SourceRow(line.src)
          IN  /\ line.datum = FirstOfMonth(row.jaar, row.periode)
              /\ line.jaar = row.jaar /\ line.periode = row.periode
              /\ (row.jaar = 2023 /\ row.periode = 3) =>
                    line.datum = <<"2", "0", "2", "3", "-", "0", "3", "-", "0", "1">>

\* a finished run with a row of March 2023 in a chart and in a table, and a row
\* of a two-digit month
C3_Witness ==
    /\ pc = "done"
    /\ \E p \in TablePoints : tables[p[1]][p[2]].jaar = 2023 /\ tables[p[1]][p[2]].periode = 3
    /\ \E p \in ChartPoints : charts[p[1]][p[2]].text[p[3]] = <<2023, 3>>

----------------------------------------------------------------------------
(* C4 *)

\* the period codes of the file are those of a quarterly extract
QuarterlyCoded == \A i \in 1..Len(df) : df[i].periode \in 0..4

\* C4: in a quarterly-coded extract the datum of a row with year y and quarter q
\* is the first day of month 3q-2 of year y (2023, 2 gives 2023-04-01)
C4_QuarterlyDate ==
    QuarterlyCoded =>
        /\ \A i \in 1..Len(df_gewest) :
              df_gewest[i].datum =
                 [year |-> df_gewest[i].jaar, month |-> 3 * df_gewest[i].periode - 2, day |-> 1]
        /\ \A p \in TablePoints :
              LET row == SourceRow(tables[p[1]][p[2]].src)
              IN  tables[p[1]][p[2]].datum = FirstOfMonth(row.jaar, 3 * row.periode - 2)

----------------------------------------------------------------------------
(* C5 *)

\* the source total of a retained row is zero or missing
NoDenominator(row) ==
    IsNaN(row.nieuwbouw_woningen_totaal) \/ row.nieuwbouw_woningen_totaal = Num(0)

\* C5: aandeel_flats of a retained row is exactly 0 when the total is 0 or
\* missing, whatever the apartments value, and no NaN or infinity reaches the
\* aandeel_flats series, trend or table
C5_ZeroShareWithoutDenominator ==
    /\ \A i \in 1..Len(df_gewest) :
          NoDenominator(SourceRow(df_gewest[i].idx)) => df_gewest[i].aandeel_flats = Num(0)
    /\ \A i \in 1..Len(df_gewest) : IsNum(df_gewest[i].aandeel_flats)
    /\ \A t \in 1..Len(charts[3]) : \A i \in 1..Len(charts[3][t].y) : IsNum(charts[3][t].y[i])
    /\ \A i \in 1..Len(tables[3]) : IsNum(tables[3][i].maand) /\ IsNum(tables[3][i].trend)

----------------------------------------------------------------------------
(* C6 *)

\* the source total of a retained row is greater than 0
HasDenominator(row) ==
    IsNum(row.nieuwbouw_woningen_totaal) /\ row.nieuwbouw_woningen_totaal.v > 0

\* a float in the closed range [0, 100]
InPercentRange(f) == IsNum(f) /\ 0 <= f.v /\ f.v <= 100 * Scale

\* the apartments of a row are missing or do not exceed its total
PartOfTotal(row) ==
    \/ IsNaN(row.nieuwbouw_appartementen)
    \/ /\ IsNum(row.nieuwbouw_appartementen)
       /\ row.nieuwbouw_appartementen.v <= row.nieuwbouw_woningen_totaal.v

\* C6 as stated: aandeel_flats of every retained row with a total greater than 0
\* lies in [0, 100]
C6_ShareWithinRange ==
    \A i \in 1..Len(df_gewest) :
        HasDenominator(SourceRow(df_gewest[i].idx)) => InPercentRange(df_gewest[i].aandeel_flats)

\* C6 amended: aandeel_flats of every retained row with a total greater than 0
\* whose apartments are missing or at most the total lies in [0, 100], in
\* df_gewest, in the chart's monthly trace and in the table; the value is not
\* clamped, so apartments above the total give a share above 100
C6_ShareWithinRangeWhenPartOfTotal ==
    /\ \A i \in 1..Len(df_gewest) :
          LET row == SourceRow(df_gewest[i].idx)
          IN  (HasDenominator(row) /\ PartOfTotal(row)) => InPercentRange(df_gewest[i].aandeel_flats)
    /\ \A t \in 1..Len(charts[3]) : \A i \in 1..Len(charts[3][t].y) :
          LET row == SourceRow(charts[3][t].src[i])
          IN  (charts[3][t].name = "maand" /\ HasDenominator(row) /\ PartOfTotal(row)) =>
                 InPercentRange(charts[3][t].y[i])
    /\ \A i \in 1..Len(tables[3]) :
          LET row == SourceRow(tables[3][i].src)
          IN  (HasDenominator(row) /\ PartOfTotal(row)) => InPercentRange(tables[3][i].maand)

\* a finished run with a table row of 1 apartment in 2 dwellings (50.0 %) and a
\* row whose total is positive and whose apartments are missing
C6_Witness ==
    /\ pc = "done"
    /\ \E i \in 1..Len(tables[3]) :
          /\ SourceRow(tables[3][i].src).nieuwbouw_woningen_totaal = Count(2)
          /\ SourceRow(tables[3][i].src).nieuwbouw_appartementen = Count(1)
          /\ tables[3][i].maand = Count(50)
    /\ \E i \in 1..Len(tables[3]) :
          /\ HasDenominator(SourceRow(tables[3][i].src))
          /\ IsNaN(SourceRow(tables[3][i].src).nieuwbouw_appartementen)

----------------------------------------------------------------------------
(* C7 *)

RECURSIVE SumUnits(_, _, _)
\* the sum of the units of values[lo..hi], all finite
SumUnits(values, lo, hi) == IF lo > hi THEN 0 ELSE values[hi].v + SumUnits(values, lo, hi - 1)

\* the arithmetic mean of the trailing min(4, i) values ending at position i
\* (1-based): an infinity among them makes the mean infinite
TrailingMean(values, i) ==
    LET lo == IF i <= 4 THEN 1 ELSE i - 3
    IN  IF \E j \in lo..i : IsNaN(values[j]) THEN NaN
        ELSE IF \E j \in lo..i : IsInf(values[j]) THEN Inf
        ELSE Num(SumUnits(values, lo, i) \div (i - lo + 1))

\* the positions of the rows of table m that belong to the gewest of row i, up to i
GroupUpTo(m, i) == SelectSeq([j \in 1..i |-> j], LAMBDA j : tables[m][j].gewest = tables[m][i].gewest)

\* the 'maand' values of the rows of table m that belong to the gewest of row i, up to i
GroupValuesUpTo(m, i) == [k \in 1..Len(GroupUpTo(m, i)) |-> tables[m][GroupUpTo(m, i)[k]].maand]

\* the trend trace of every gewest is, position by position, the trailing mean
\* of its monthly trace; every table trend is that mean to one decimal
TrendIsTrailingMean(m) ==
    /\ \A t \in 1..Len(charts[m]) :
          charts[m][t].name = "trend" =>
             \A i \in 1..Len(charts[m][t].y) :
                charts[m][t].y[i] = TrailingMean(charts[m][t - 1].y, i)
    /\ \A i \in 1..Len(tables[m]) :
          LET values == GroupValuesUpTo(m, i)
          IN  tables[m][i].trend = Round1(TrailingMean(values, Len(values)))

\* C7: for every metric, every group and every position i of its date-sorted
\* sequence, the trend value is the arithmetic mean of the raw values at the
\* trailing min(4, i+1) positions ending at i
C7_TrendIsTrailingMean == \A m \in 1..NAnalyses : TrendIsTrailingMean(m)

\* the part of C7 the code satisfies: the two count metrics (never infinite),
\* with raw values 10, 20, 30, 40, 100 giving trend 10, 15, 20, 25, 47.5
C7_TrendOfCountsIsTrailingMean ==
    /\ TrendIsTrailingMean(1)
    /\ TrendIsTrailingMean(2)
    /\ \A m \in 1..2 : \A t \in 1..Len(charts[m]) :
          (/\ charts[m][t].name = "trend"
           /\ charts[m][t - 1].y = <<Count(10), Count(20), Count(30), Count(40), Count(100)>>)
          => charts[m][t].y = <<Count(10), Count(15), Count(20), Count(25), Num(475 * (Scale \div 10))>>

\* a finished run whose first chart plots 10, 20, 30, 40, 100 from a file that
\* lists the months newest first
C7_CountsWitness ==
    /\ pc = "done"
    /\ Len(charts[1]) = 2
    /\ charts[1][1].y = <<Count(10), Count(20), Count(30), Count(40), Count(100)>>
    /\ charts[1][1].src = <<4, 3, 2, 1, 0>>
    /\ Len(tables[1]) = 5

----------------------------------------------------------------------------
(* C8 *)

\* C8: for every metric and every non-empty group, the trend value of the first
\* Series Point equals its raw value, in the chart and in the table/CSV
C8_FirstTrendIsRaw ==
    \A m \in 1..NAnalyses :
        /\ \A t \in 1..Len(charts[m]) :
              charts[m][t].name = "trend" => charts[m][t].y[1] = charts[m][t - 1].y[1]
        /\ \A i \in 1..Len(tables[m]) :
              Len(GroupUpTo(m, i)) = 1 => tables[m][i].trend = tables[m][i].maand

\* the part of C8 the code satisfies: a first Series Point whose raw value is
\* finite
C8_FirstTrendIsFiniteRaw ==
    \A m \in 1..NAnalyses :
        /\ \A t \in 1..Len(charts[m]) :
              (charts[m][t].name = "trend" /\ IsNum(charts[m][t - 1].y[1])) =>
                 charts[m][t].y[1] = charts[m][t - 1].y[1]
        /\ \A i \in 1..Len(tables[m]) :
              (Len(GroupUpTo(m, i)) = 1 /\ IsNum(tables[m][i].maand)) =>
                 tables[m][i].trend = tables[m][i].maand

----------------------------------------------------------------------------
(* C9 *)

\* the date written by a 'YYYY-MM-DD' text, as the number YYYYMMDD
DateKey(s) ==
    DigitValue(s[1]) * 10000000 + DigitValue(s[2]) * 1000000 + DigitValue(s[3]) * 100000
    + DigitValue(s[4]) * 10000 + DigitValue(s[6]) * 1000 + DigitValue(s[7]) * 100
    + DigitValue(s[9]) * 10 + DigitValue(s[10])

\* two rows of the file carry the same year and period
SamePeriod(a, b) == a.jaar = b.jaar /\ a.periode = b.periode

\* C9 as stated: the dates of every group's Series Points are strictly
\* increasing, in every trace and in every table
C9_DatesStrictlyIncreasing ==
    /\ \A m \in 1..NAnalyses : \A t \in 1..Len(charts[m]) :
          \A i, j \in 1..Len(charts[m][t].x) :
             i < j => DateKey(charts[m][t].x[i]) < DateKey(charts[m][t].x[j])
    /\ \A m \in 1..NAnalyses : \A i, j \in 1..Len(tables[m]) :
          (i < j /\ tables[m][i].gewest = tables[m][j].gewest) =>
             DateKey(tables[m][i].datum) < DateKey(tables[m][j].datum)

\* C9 amended: the dates of every group's Series Points are non-decreasing, and
\* two Series Points of a group carry the same date only when their source rows
\* carry the same year and period (the rows of a group are not deduplicated)
C9_DatesAscending ==
    /\ \A m \in 1..NAnalyses : \A t \in 1..Len(charts[m]) :
          \A i, j \in 1..Len(charts[m][t].x) :
             i < j =>
                /\ DateKey(charts[m][t].x[i]) <= DateKey(charts[m][t].x[j])
                /\ ~SamePeriod(SourceRow(charts[m][t].src[i]), SourceRow(charts[m][t].src[j]))
                      => DateKey(charts[m][t].x[i]) < DateKey(charts[m][t].x[j])
    /\ \A m \in 1..NAnalyses : \A i, j \in 1..Len(tables[m]) :
          (i < j /\ tables[m][i].gewest = tables[m][j].gewest) =>
             /\ DateKey(tables[m][i].datum) <= DateKey(tables[m][j].datum)
             /\ ~SamePeriod(SourceRow(tables[m][i].src), SourceRow(tables[m][j].src))
                   => DateKey(tables[m][i].datum) < DateKey(tables[m][j].datum)

\* a finished run in which a group's rows stood in the file in another order
\* than by date, across a change of year
C9_Witness ==
    /\ pc = "done"
    /\ \E t \in 1..Len(charts[3]) :
          /\ Len(charts[3][t].x) >= 3
          /\ charts[3][t].src[1] > charts[3][t].src[2]
          /\ charts[3][t].text[1][1] < charts[3][t].text[3][1]
    /\ \E i, j \in 1..Len(tables[3]) :
          i < j /\ tables[3][i].gewest = tables[3][j].gewest /\ tables[3][i].src > tables[3][j].src

----------------------------------------------------------------------------
(* C10 *)

\* C10: a retained row whose label is no key of gewest_mapping is behind no
\* chart point and no table/CSV row and belongs to no group; every chart trace
\* and table row carries the display name of its row's own upper-case label
C10_UnmappedExcluded ==
    /\ \A src \in OutputSources : SourceRow(src).gemeente_naam_nl \in DOMAIN gewest_mapping
    /\ \A p \in ChartPoints :
          LET naam == SourceRow(charts[p[1]][p[2]].src[p[3]]).gemeente_naam_nl
          IN  /\ naam \in DOMAIN gewest_mapping
              /\ charts[p[1]][p[2]].legendgroup = gewest_mapping[naam]
    /\ \A p \in TablePoints :
          LET naam == SourceRow(tables[p[1]][p[2]].src).gemeente_naam_nl
          IN  /\ naam \in DOMAIN gewest_mapping
              /\ tables[p[1]][p[2]].gewest = gewest_mapping[naam]

\* a finished run whose filtered frame holds a row with a label in display
\* form and a row with a missing label, next to a row that reached a table
C10_Witness ==
    /\ pc = "done"
    /\ \E i \in 1..Len(df_gewest) : SourceRow(df_gewest[i].idx).gemeente_naam_nl = "Vlaams Gewest"
    /\ Len(tables[1]) > 0

\* a finished run whose filtered frame holds a row with a missing label next to
\* a row that reached a chart
C10_WitnessMissing ==
    /\ pc = "done"
    /\ \E i \in 1..Len(df_gewest) : SourceRow(df_gewest[i].idx).gemeente_naam_nl = Missing
    /\ Len(charts[1]) > 0

----------------------------------------------------------------------------
(* C11: rows dropped for an unmapped label are counted and reported *)

\* the rows of the file that pass the filter and are dropped for their label
DroppedRows(file) ==
    Cardinality({i \in 1..Len(PrepareData(ReadCsv(file))) :
                    PrepareData(ReadCsv(file))[i].gemeente_naam_nl = Missing})

\* everything a completed run over the file reports
RunOutput(file) ==
    LET frame == ReadCsv(file)
        data == PrepareData(frame)
        labels == Gewesten(data)
    IN  <<DataLoadedLine(frame, labels)>>
            \o ChartLines(data, labels) \o ChartLines(data, labels) \o ChartLines(data, labels)
            \o <<GenerateStats(frame, labels)>>

\* C11: a file with unmapped labels does not abort the run, and once the run
\* has completed its output tells how many rows were dropped: no other file
\* with a different number of dropped rows produces the same output
C11_DroppedCountReported ==
    /\ (columns = AllColumns => pc # "failed")
    /\ (pc = "done" =>
            \A other \in SelectDatasets :
                (Len(other) = Len(csv) /\ RunOutput(other) = output)
                    => DroppedRows(other) = DroppedRows(csv))

----------------------------------------------------------------------------
(* C12: an empty result is not an error *)

\* the row matches the requested level and period set
Matches(row) == row.geografisch_niveau = 2 /\ row.periode \in 1..12

NoRowMatches == \A i \in 1..Len(df) : ~Matches(df[i])

Loaded == pc \in {"generate_analyses", "generate_html", "done"}

\* C12: when no row of a well-formed file matches the level and period set,
\* the run goes on to completion without an error, every analysis that has
\* been generated has an empty table and a chart without traces
C12_EmptyResultIsValid ==
    (columns = AllColumns /\ pc # "load_and_prepare_data" /\ NoRowMatches)
        => /\ Loaded
           /\ (pc # "done" => ENABLED Next)
           /\ \A m \in 1..NAnalyses :
                /\ charts[m] = <<>>
                /\ tables[m] = <<>>
                /\ table_html[m] = <<>>
                /\ data_rows[m] = 0

\* a completed run over a file with rows, none of which matches
C12_Witness ==
    /\ pc = "done"
    /\ docs[IndexFile] = "written"
    /\ Len(df) = MaxRows
    /\ NoRowMatches
    /\ \E i \in 1..Len(df) : df[i].geografisch_niveau # 2 /\ df[i].periode \in 1..12

----------------------------------------------------------------------------
(* C13: chart and table agree *)

\* the rows of the table/CSV of analysis m that belong to a group
GroupTable(m, gewest) == SelectSeq(tables[m], LAMBDA r : r.gewest = gewest)

\* the table cell that corresponds to a trace: 'maand' or 'trend'
CellOfTrace(row, trace) == IF trace.name = "maand" THEN row.maand ELSE row.trend

\* every group of the table has traces in the chart
TableGroupsCharted ==
    \A m \in 1..NAnalyses : \A i \in 1..Len(tables[m]) :
        \E t \in 1..Len(charts[m]) : charts[m][t].legendgroup = tables[m][i].gewest

\* position by position, the trace and the group's table rows have the same dates
SameDates(m, t) ==
    LET trace == charts[m][t]
        rows == GroupTable(m, trace.legendgroup)
    IN  /\ Len(rows) = Len(trace.x)
        /\ \A i \in 1..Len(rows) : rows[i].datum = trace.x[i]

\* C13 as stated: for every metric, group and date the raw and the trend value
\* of the chart equal the raw and the trend value of the table/CSV
C13_ChartEqualsTable ==
    /\ TableGroupsCharted
    /\ \A m \in 1..NAnalyses : \A t \in 1..Len(charts[m]) :
          /\ SameDates(m, t)
          /\ \A i \in 1..Len(charts[m][t].y) :
                CellOfTrace(GroupTable(m, charts[m][t].legendgroup)[i], charts[m][t]) = charts[m][t].y[i]

\* cell is plotted to one decimal: a multiple of 0.1 at most 0.05 away from
\* plotted, or the same non-finite value
PlottedToOneDecimal(cell, plotted) ==
    IF IsNum(plotted)
    THEN /\ IsNum(cell)
         /\ cell.v % (Scale \div 10) = 0
         /\ 2 * (cell.v - plotted.v) <= Scale \div 10
         /\ 2 * (plotted.v - cell.v) <= Scale \div 10
    ELSE cell = plotted

\* C13 amended: the raw values agree, and the trend value of the table/CSV is
\* the trend value of the chart rounded to one decimal
C13_ChartEqualsTableRounded ==
    /\ TableGroupsCharted
    /\ \A m \in 1..NAnalyses : \A t \in 1..Len(charts[m]) :
          /\ SameDates(m, t)
          /\ \A i \in 1..Len(charts[m][t].y) :
                LET cell == CellOfTrace(GroupTable(m, charts[m][t].legendgroup)[i], charts[m][t])
                IN  IF charts[m][t].name = "maand"
                    THEN cell = charts[m][t].y[i]
                    ELSE PlottedToOneDecimal(cell, charts[m][t].y[i])

\* a completed run whose chart plots a trend value with more than one decimal,
\* nearer to the next tenth than to the one below
C13_Witness ==
    /\ pc = "done"
    /\ \E m \in 1..NAnalyses : \E t \in 1..Len(charts[m]) :
          /\ charts[m][t].name = "trend"
          /\ \E i \in 1..Len(charts[m][t].y) :
                /\ IsNum(charts[m][t].y[i])
                /\ 2 * (charts[m][t].y[i].v % (Scale \div 10)) > Scale \div 10
                /\ GroupTable(m, charts[m][t].legendgroup)[i].trend # charts[m][t].y[i]

----------------------------------------------------------------------------
(* C14: a fatal error writes nothing *)

\* C14: a run that failed on a missing column has written no file of docs/:
\* every file is still absent, or still the one a previous run published
C14_FatalErrorWritesNothing ==
    pc = "failed" => \A f \in DocFiles : docs[f] # "written"

----------------------------------------------------------------------------
(* C15: a missing metric value is a zero, not a dropped row *)

\* the value of metric m is missing in a row of the file: a missing count, or
\* a share without numerator, without denominator or of 0 out of 0
MissingMetric(row, m) ==
    CASE m = 1 -> IsNaN(row.nieuwbouw_woningen_totaal)
      [] m = 2 -> IsNaN(row.renovatie_gebouwen_wonen)
      [] m = 3 -> \/ IsNaN(row.nieuwbouw_appartementen)
                  \/ IsNaN(row.nieuwbouw_woningen_totaal)
                  \/ (row.nieuwbouw_appartementen = Count(0) /\ row.nieuwbouw_woningen_totaal = Count(0))

\* the row with the value of metric m set to 0 where it is missing (a share
\* of 0: no apartment out of one dwelling)
ZeroedRow(row, m) ==
    IF ~MissingMetric(row, m) THEN row
    ELSE CASE m = 1 -> [row EXCEPT !.nieuwbouw_woningen_totaal = Count(0)]
           [] m = 2 -> [row EXCEPT !.renovatie_gebouwen_wonen = Count(0)]
           [] m = 3 -> [row EXCEPT !.nieuwbouw_appartementen = Count(0),
                                   !.nieuwbouw_woningen_totaal = Count(1)]

Zeroed(file, m) == [i \in 1..Len(file) |-> ZeroedRow(file[i], m)]

\* what a chart plots and what a table lists: groups, dates, raw and trend values
PlottedValues(traces) ==
    [t \in 1..Len(traces) |->
        [name |-> traces[t].name, legendgroup |-> traces[t].legendgroup,
         x |-> traces[t].x, y |-> traces[t].y]]

ListedValues(rows) ==
    [i \in 1..Len(rows) |->
        [gewest |-> rows[i].gewest, datum |-> rows[i].datum,
         maand |-> rows[i].maand, trend |-> rows[i].trend]]

\* the retained rows with a mapped label whose metric m is missing
MissingSources(m) ==
    {src \in 0..(Len(df) - 1) :
        /\ Matches(SourceRow(src))
        /\ SourceRow(src).gemeente_naam_nl \in DOMAIN gewest_mapping
        /\ MissingMetric(SourceRow(src), m)}

\* C15: for each of the three metrics, a retained row whose metric value is
\* missing has its point in the raw trace and its row in the table/CSV, both
\* with raw value 0, and every trend value is what it would be had the file
\* held a 0 in place of the missing value
C15_MissingCountsAsZero ==
    \A m \in 1..analyses :
        /\ \A src \in MissingSources(m) :
              /\ \E t \in 1..Len(charts[m]) : \E i \in 1..Len(charts[m][t].y) :
                    /\ charts[m][t].name = "maand"
                    /\ charts[m][t].src[i] = src
                    /\ charts[m][t].y[i] = Num(0)
              /\ \E i \in 1..Len(tables[m]) :
                    tables[m][i].src = src /\ tables[m][i].maand = Num(0)
        /\ LET data == PrepareData(ReadCsv(Zeroed(csv, m)))
           IN  /\ PlottedValues(charts[m]) = PlottedValues(ChartTraces(data, Metrics[m], Gewesten(data)))
               /\ ListedValues(tables[m]) = ListedValues(TableRows(data, Metrics[m], Gewesten(data)))

\* a completed run over two months of one gewest: in each of the three metrics
\* the first month is missing and plotted as 0, and the trend of the second
\* month is half its raw value
C15_Witness ==
    /\ pc = "done"
    /\ \A m \in 1..NAnalyses :
          /\ MissingSources(m) = {0}
          /\ Len(charts[m]) = 2
          /\ charts[m][1].src = <<0, 1>>
          /\ charts[m][1].y[1] = Num(0)
          /\ IsNum(charts[m][1].y[2])
          /\ charts[m][1].y[2].v > 0
          /\ 2 * charts[m][2].y[2].v = charts[m][1].y[2].v

----------------------------------------------------------------------------
(* C16: one Series Point per retained row *)

\* the rows of the file that pass the level and period filter and have a mapped label
RetainedSources ==
    {src \in 0..(Len(df) - 1) :
        Matches(SourceRow(src)) /\ SourceRow(src).gemeente_naam_nl \in DOMAIN gewest_mapping}

\* C16: the table/CSV of every generated metric holds exactly one row for each
\* retained row of the file, carrying that row's year and period, and no other
\* row; data_rows is the number of retained rows
C16_OnePointPerRetainedRow ==
    \A m \in 1..analyses :
        /\ \A src \in RetainedSources :
              Cardinality({i \in 1..Len(tables[m]) : tables[m][i].src = src}) = 1
        /\ \A i \in 1..Len(tables[m]) :
              /\ tables[m][i].src \in RetainedSources
              /\ tables[m][i].jaar = SourceRow(tables[m][i].src).jaar
              /\ tables[m][i].periode = SourceRow(tables[m][i].src).periode
        /\ Len(tables[m]) = Cardinality(RetainedSources)
        /\ data_rows[m] = Cardinality(RetainedSources)

\* a completed run over a file that lists the same gewest and month twice:
\* both rows are in every table
C16_Witness ==
    /\ pc = "done"
    /\ Len(csv) = 2
    /\ csv[1] = csv[2]
    /\ \A m \in 1..NAnalyses : data_rows[m] = 2

----------------------------------------------------------------------------
(* C17: the HTML table shows the most recent rows *)

\* the rows of the table/CSV of analysis m that the HTML table leaves out
LeftOut(m) ==
    {i \in 1..Len(tables[m]) :
        \A j \in 1..Len(table_html[m]) : table_html[m][j].src # tables[m][i].src}

\* C17: the HTML table of a metric with more than 30 rows shows 30 of them,
\* and no row it leaves out has a later date than a row it shows
C17_TableShowsMostRecent ==
    \A m \in 1..analyses :
        Len(tables[m]) > 30 =>
            /\ Len(table_html[m]) = 30
            /\ \A i \in LeftOut(m) : \A j \in 1..Len(table_html[m]) :
                  DateKey(tables[m][i].datum) <= DateKey(table_html[m][j].datum)

----------------------------------------------------------------------------
(* C18: one raw trace and one trend trace per group *)

\* the retained rows of a group, by the display name of the group
GroupSources(gewest) ==
    {src \in RetainedSources : gewest_mapping[SourceRow(src).gemeente_naam_nl] = gewest}

\* the groups that have at least one Series Point
NonEmptyGroups == {gewest_mapping[SourceRow(src).gemeente_naam_nl] : src \in RetainedSources}

\* the traces of chart m with a name ('maand' or 'trend') of a group
TracesOf(m, name, gewest) ==
    {t \in 1..Len(charts[m]) : charts[m][t].name = name /\ charts[m][t].legendgroup = gewest}

\* C18: the chart of every generated metric has, for every group with a Series
\* Point, exactly one raw trace, immediately followed by the one trend trace of
\* the group over the same dates, one date per row of the group; it has no
\* other trace, so a group without rows has none
C18_TracePairPerGroup ==
    \A m \in 1..analyses :
        /\ \A gewest \in NonEmptyGroups :
              /\ Cardinality(TracesOf(m, "maand", gewest)) = 1
              /\ Cardinality(TracesOf(m, "trend", gewest)) = 1
              /\ \A t \in TracesOf(m, "maand", gewest) :
                    /\ t + 1 \in TracesOf(m, "trend", gewest)
                    /\ charts[m][t + 1].x = charts[m][t].x
                    /\ Len(charts[m][t].x) = Cardinality(GroupSources(gewest))
                    /\ Len(charts[m][t].y) = Len(charts[m][t].x)
                    /\ Len(charts[m][t + 1].y) = Len(charts[m][t].x)
        /\ \A t \in 1..Len(charts[m]) :
              /\ charts[m][t].legendgroup \in NonEmptyGroups
              /\ charts[m][t].name \in {"maand", "trend"}

\* a completed run with two groups, hence four traces, in every chart
C18_Witness ==
    /\ pc = "done"
    /\ Cardinality(NonEmptyGroups) = 2
    /\ \A m \in 1..NAnalyses : Len(charts[m]) = 4

----------------------------------------------------------------------------
(* C19: a group's series depends on the group's rows only *)

\* the rows of the file that carry a label, in file order
RowsOfLabel(file, naam) == SelectSeq(file, LAMBDA r : r.gemeente_naam_nl = naam)

\* the traces of a group
GroupTraces(traces, gewest) == SelectSeq(traces, LAMBDA t : t.legendgroup = gewest)

\* C19: for every generated metric and every group, the series of the group
\* (dates, raw values, trend values, in the chart and in the table/CSV) is the
\* series the run produces from the group's rows alone; hence two files with
\* the same rows for the group give it the same series
C19_GroupSeriesFromOwnRows ==
    \A m \in 1..analyses : \A naam \in DOMAIN gewest_mapping :
        LET data == PrepareData(ReadCsv(RowsOfLabel(csv, naam)))
        IN  /\ PlottedValues(GroupTraces(charts[m], gewest_mapping[naam]))
                  = PlottedValues(ChartTraces(data, Metrics[m], Gewesten(data)))
            /\ ListedValues(GroupTable(m, gewest_mapping[naam]))
                  = ListedValues(TableRows(data, Metrics[m], Gewesten(data)))

\* a completed run over a file that alternates the rows of two groups
C19_Witness ==
    /\ pc = "done"
    /\ Len(csv) = 2 * MaxLongRows
    /\ csv[1].gemeente_naam_nl # csv[2].gemeente_naam_nl
    /\ \A m \in 1..NAnalyses :
          /\ Len(GroupTraces(charts[m], "Vlaams Gewest")) = 2
          /\ Len(GroupTraces(charts[m], "Waals Gewest")) = 2
          /\ Len(GroupTable(m, "Waals Gewest")) = MaxLongRows

----------------------------------------------------------------------------
(* C20: the table is the concatenation of the per-group sequences *)

\* the index label of the first retained row of a group
FirstAppearance(gewest) ==
    CHOOSE src \in GroupSources(gewest) : \A other \in GroupSources(gewest) : src <= other

\* C20: in the table/CSV of every generated metric, two rows of one group are
\* in ascending date order, and a row of one group precedes a row of another
\* group exactly when its group appears first in the filtered dataset: the
\* groups follow one another in order of first appearance, never interleaved
C20_TableIsConcatenationOfGroups ==
    \A m \in 1..analyses : \A i, j \in 1..Len(tables[m]) :
        i < j =>
            IF tables[m][i].gewest = tables[m][j].gewest
            THEN DateKey(tables[m][i].datum) <= DateKey(tables[m][j].datum)
            ELSE FirstAppearance(tables[m][i].gewest) < FirstAppearance(tables[m][j].gewest)

\* a completed run over a file that alternates Waals and Vlaams rows: every
\* table lists the Waals rows, then the Vlaams rows
C20_Witness ==
    /\ pc = "done"
    /\ Len(csv) = 2 * MaxLongRows
    /\ csv[1].gemeente_naam_nl = "WAALS GEWEST"
    /\ csv[2].gemeente_naam_nl = "VLAAMS GEWEST"
    /\ \A m \in 1..NAnalyses :
          /\ Len(tables[m]) = 2 * MaxLongRows
          /\ \A i \in 1..MaxLongRows : tables[m][i].gewest = "Waals Gewest"
          /\ \A i \in (MaxLongRows + 1)..(2 * MaxLongRows) : tables[m][i].gewest = "Vlaams Gewest"

----------------------------------------------------------------------------
(* C21: the colour lookup cannot fail *)

\* C21: every display name gewest_mapping produces has a colour, and every
\* trace of every chart belongs to a group of gewest_colors and carries that
\* group's colour: no group without a colour reaches the lookup
C21_ColourLookupNeverFails ==
    /\ \A naam \in DOMAIN gewest_mapping : gewest_mapping[naam] \in DOMAIN gewest_colors
    /\ \A m \in 1..NAnalyses : \A t \in 1..Len(charts[m]) :
          /\ charts[m][t].legendgroup \in {"Vlaams Gewest", "Waals Gewest", "Brussels Hoofdstedelijk Gewest"}
          /\ charts[m][t].legendgroup \in DOMAIN gewest_colors
          /\ charts[m][t].color # "KeyError"
          /\ charts[m][t].color = gewest_colors[charts[m][t].legendgroup]

\* a completed run over a file with a gewest row and a row without label: the
\* missing label is one of self.gewesten, and the charts hold the blue traces
\* of Vlaams Gewest only
C21_Witness ==
    /\ pc = "done"
    /\ \E i \in 1..Len(gewesten) : gewesten[i] = Missing
    /\ \E i \in 1..Len(df) : df[i].gemeente_naam_nl = Missing /\ Matches(df[i])
    /\ \A m \in 1..NAnalyses :
          /\ Len(charts[m]) = 2
          /\ charts[m][1].color = "#1f77b4"
          /\ charts[m][2].color = "#1f77b4"

----------------------------------------------------------------------------
(* C22: building_permits.csv is written on the success path only *)

\* building_permits.csv is as the run found it: not there, or of an earlier run
CsvUntouched == data_dir[output_csv] \in {Absent, Previous}

\* building_permits.csv holds the converted frame of this run
CsvWritten == download_df # None /\ data_dir[output_csv] = download_df

\* the archive had no '.txt' member that was extracted into data/
NoTxtExtracted ==
    \A i \in 1..Len(extracted_files) :
        EndsWithTxt(extracted_files[i]) => extracted_files[i].up

\* a step deletes a file of data/
Unlinks(f) == data_dir[f] # Absent /\ data_dir'[f] = Absent

\* until it is written building_permits.csv is untouched, and a run that found
\* no data file has exited with status 1 and left it untouched
WrittenOnSuccessPathOnly ==
    /\ CsvUntouched \/ CsvWritten
    /\ dl_pc \in {"no data file", "exited"} => CsvUntouched
    /\ (dl_pc = "exited" /\ NoTxtExtracted) => (exit_status = 1 /\ CsvUntouched)
    /\ dl_pc = "done" => (exit_status = 0 /\ CsvWritten)

\* the ZIP and the extracted text are deleted only once the CSV is written
UnlinkAfterWrite ==
    \A f \in DataFiles \ {output_csv} : Unlinks(f) => (CsvWritten /\ CsvWritten')

\* C22: building_permits.csv is written only on the success path (a run
\* without extracted .txt member exits with status 1 and neither creates nor
\* overwrites it), and the ZIP and the extracted text file are deleted only
\* after building_permits.csv has been written
C22_CsvWrittenOnSuccessOnly == []WrittenOnSuccessPathOnly /\ [][UnlinkAfterWrite]_vars

\* the archive holds a member with the name of the output
OutputNameInArchive ==
    response.status = "ok" /\ response.zip
        /\ \E i \in 1..Len(response.members) : ExtractPath(response.members[i].name) = output_csv

\* what holds of C22 whatever the archive: main() itself writes the CSV on the
\* success path only; before that the file is as extractall left it
C22_WrittenByMainOnSuccessOnly ==
    /\ [](~OutputNameInArchive => WrittenOnSuccessPathOnly)
    /\ [](CsvUntouched \/ CsvWritten \/ (OutputNameInArchive /\ data_dir[output_csv] = OtherContent))
    /\ [](dl_pc = "done" => (exit_status = 0 /\ CsvWritten))
    /\ [][UnlinkAfterWrite]_vars

----------------------------------------------------------------------------
(* C23: ENGLISH_COLUMN_NAMES is the inverse of DUTCH_COLUMN_NAMES *)

\* the column is a source field code of DUTCH_COLUMN_NAMES
IsFieldCode(col) == Len(col) = 1 /\ col[1] \in DOMAIN DUTCH_COLUMN_NAMES

\* C23: DUTCH_COLUMN_NAMES maps distinct field codes to distinct names,
\* ENGLISH_COLUMN_NAMES[DUTCH_COLUMN_NAMES[k]] = k for every code k, the two
\* maps have the same number of entries, and a field code that the download
\* has renamed with DUTCH_COLUMN_NAMES is found back through ENGLISH_COLUMN_NAMES
C23_EnglishIsInverseOfDutch ==
    /\ Cardinality(DOMAIN DUTCH_COLUMN_NAMES) = Len(DUTCH_COLUMN_ITEMS)
    /\ \A j, k \in DOMAIN DUTCH_COLUMN_NAMES :
          j # k => DUTCH_COLUMN_NAMES[j] # DUTCH_COLUMN_NAMES[k]
    /\ \A k \in DOMAIN DUTCH_COLUMN_NAMES :
          /\ DUTCH_COLUMN_NAMES[k] \in DOMAIN ENGLISH_COLUMN_NAMES
          /\ ENGLISH_COLUMN_NAMES[DUTCH_COLUMN_NAMES[k]] = k
    /\ Cardinality(DOMAIN ENGLISH_COLUMN_NAMES) = Cardinality(DOMAIN DUTCH_COLUMN_NAMES)
    /\ (download_df # None /\ column_names = DUTCH_COLUMN_NAMES /\ Exists(data_dir, data_file)) =>
          \A i \in 1..Len(download_df.columns) :
              LET code == StripColumn(data_dir[data_file].header[i])
              IN  IsFieldCode(code) =>
                    /\ download_df.columns[i] # code
                    /\ download_df.columns[i][1] \in DOMAIN ENGLISH_COLUMN_NAMES
                    /\ <<ENGLISH_COLUMN_NAMES[download_df.columns[i][1]]>> = code

\* the CSV has just been written with the names of config: CD_YEAR, REFNIS_NL
\* and MS_DWELLING_RES_NEW have become jaar, gemeente_naam_nl and
\* nieuwbouw_woningen_totaal, and the extracted text is still there
C23_Witness ==
    /\ dl_pc = "unlink zip"
    /\ column_names = DUTCH_COLUMN_NAMES
    /\ Exists(data_dir, data_file)
    /\ data_dir[output_csv] = download_df
    /\ download_df.columns =
          << <<"jaar">>, <<"gemeente_naam_nl">>, <<"nieuwbouw_woningen_totaal">>, <<"TX_RGN_DESCR_NL">> >>

====
